---- MODULE Spec2Model ----
(***************************************************************************)
(* A model of src/agent_demo.py: the ReAct loop run_agent_loop, the model  *)
(* client call_llm with its retry loop, the action parser (the marker test *)
(* and the regular expression of run_agent_loop) and the tool dispatch.    *)
(*                                                                         *)
(* Text is a sequence of tokens.  The tokens that matter to the code are   *)
(*   "FA"  the literal  Final Answer:                                      *)
(*   "AS"  the literal  [ACTION_START]      "AE"  the literal [ACTION_END] *)
(*   "WS"  one whitespace character         "w"   a word of other text     *)
(*   "{" "}"  braces;  the member tokens of Member (a JSON  "key": value   *)
(*   with its separator);  "args:"  the key "args" and its colon, followed *)
(*   by its value;  "[]"  a JSON list.                                     *)
(***************************************************************************)
EXTENDS Integers, Sequences, FiniteSets, TLC

\* ------------------------------------------------------------------ bounds
MaxSteps == 2
MaxRetries == 3
MaxHist == 3
MaxInt == 3

\* The default of call_llm's max_retries, the only value run_agent_loop uses.
DefaultMaxRetries == 3

\* ------------------------------------------------------------ text helpers
RECURSIVE LStrip(_)
LStrip(s) == IF s # <<>> /\ Head(s) = "WS" THEN LStrip(Tail(s)) ELSE s

RECURSIVE RStrip(_)
RStrip(s) ==
  IF s # <<>> /\ s[Len(s)] = "WS" THEN RStrip(SubSeq(s, 1, Len(s) - 1)) ELSE s

\* A strip that forgets the trailing whitespace.
StripLeftOnly(s) == LStrip(s)

\* str.strip()
Strip(s) == RStrip(LStrip(s))

\* marker in text
Contains(s, t) == \E i \in 1..Len(s) : s[i] = t

SetMin(S) == CHOOSE x \in S : \A y \in S : x <= y

SetMax(S) == CHOOSE x \in S : \A y \in S : x >= y

\* text.split(marker, 1)[1], for a text that contains the marker
AfterFirst(s, t) ==
  SubSeq(s, SetMin({i \in 1..Len(s) : s[i] = t}) + 1, Len(s))

\* ------------------------------------------------- the regular expression
\* \s* from position i: the first position at or after i that holds no
\* whitespace (Len(s) + 1 when there is none).
RECURSIVE SkipWS(_, _)
SkipWS(s, i) == IF i <= Len(s) /\ s[i] = "WS" THEN SkipWS(s, i + 1) ELSE i

\* The positions k of a closing brace at which a match that starts at i can
\* end its group:  \[ACTION_START\] \s* \{ .* \} \s* \[ACTION_END\]
MatchEnds(s, i) ==
  IF s[i] # "AS" THEN {}
  ELSE LET j == SkipWS(s, i + 1) IN
       IF j > Len(s) \/ s[j] # "{" THEN {}
       ELSE {k \in (j + 1)..Len(s) :
               /\ s[k] = "}"
               /\ LET e == SkipWS(s, k + 1) IN e <= Len(s) /\ s[e] = "AE"}

\* The same search with a greedy .* in the group.
ActionSearchGreedy(s) ==
  LET starts == {i \in 1..Len(s) : MatchEnds(s, i) # {}} IN
  IF starts = {} THEN [found |-> FALSE, group1 |-> <<>>]
  ELSE LET i == SetMin(starts) IN
       [found |-> TRUE,
        group1 |-> SubSeq(s, SkipWS(s, i + 1), SetMax(MatchEnds(s, i)))]

\* re.search(r"\[ACTION_START\]\s*(\{.*?\})\s*\[ACTION_END\]", s, re.DOTALL):
\* the leftmost start, and from it the shortest group.
ActionSearch(s) ==
  LET starts == {i \in 1..Len(s) : MatchEnds(s, i) # {}} IN
  IF starts = {} THEN [found |-> FALSE, group1 |-> <<>>]
  ELSE LET i == SetMin(starts) IN
       [found |-> TRUE,
        group1 |-> SubSeq(s, SkipWS(s, i + 1), SetMin(MatchEnds(s, i)))]

\* ------------------------------------------------------------ JSON values
EmptyObj == [x \in {} |-> 0]

IntV(n) == [ty |-> "int", s |-> "", n |-> n, m |-> EmptyObj]

StrV(s) == [ty |-> "str", s |-> s, n |-> 0, m |-> EmptyObj]

ListV == [ty |-> "list", s |-> "", n |-> 0, m |-> EmptyObj]

ObjV(m) == [ty |-> "obj", s |-> "", n |-> 0, m |-> m]

\* The member tokens: a key with a value that is no object.
MemberInts == (-MaxInt..MaxInt) \cup {123, 456}

\* The text of the member "k": n of an object.
IntMember(k, n) == k \o ":" \o ToString(n)

IntMembers(k) == {IntMember(k, n) : n \in MemberInts}

Member ==
  [tok \in {"tool:add_numbers", "tool:mul", "tool:[]", "a:x", "b:x", "c:3"}
             \cup IntMembers("a") \cup IntMembers("b") |->
     CASE tok = "tool:add_numbers" -> [k |-> "tool", v |-> StrV("add_numbers")]
       [] tok = "tool:mul" -> [k |-> "tool", v |-> StrV("mul")]
       [] tok = "tool:[]" -> [k |-> "tool", v |-> ListV]
       [] tok = "a:x" -> [k |-> "a", v |-> StrV("x")]
       [] tok = "b:x" -> [k |-> "b", v |-> StrV("x")]
       [] tok = "c:3" -> [k |-> "c", v |-> IntV(3)]
       [] tok \in IntMembers("a") ->
            [k |-> "a",
             v |-> IntV(CHOOSE n \in MemberInts : IntMember("a", n) = tok)]
       [] tok \in IntMembers("b") ->
            [k |-> "b",
             v |-> IntV(CHOOSE n \in MemberInts : IntMember("b", n) = tok)]]

\* A later member of the same key replaces an earlier one, as in json.loads.
Put(obj, k, v) == [x \in (DOMAIN obj) \cup {k} |-> IF x = k THEN v ELSE obj[x]]

JsonInvalid == [ok |-> FALSE, obj |-> EmptyObj]

\* The members of an object whose values are no objects, from position i:
\* where they stop, and what they hold.
RECURSIVE ParseFlat(_, _, _)
ParseFlat(t, i, acc) ==
  IF i <= Len(t) /\ t[i] \in DOMAIN Member
  THEN ParseFlat(t, i + 1, Put(acc, Member[t[i]].k, Member[t[i]].v))
  ELSE [next |-> i, obj |-> acc]

\* The members of the outer object from position i, to its closing brace,
\* which must end the text.
RECURSIVE ParseMembers(_, _, _)
ParseMembers(t, i, acc) ==
  IF i > Len(t) THEN JsonInvalid
  ELSE IF t[i] = "}"
    THEN IF i = Len(t) THEN [ok |-> TRUE, obj |-> acc] ELSE JsonInvalid
  ELSE IF t[i] \in DOMAIN Member
    THEN ParseMembers(t, i + 1, Put(acc, Member[t[i]].k, Member[t[i]].v))
  ELSE IF t[i] = "args:" /\ i + 1 <= Len(t) /\ t[i + 1] = "[]"
    THEN ParseMembers(t, i + 2, Put(acc, "args", ListV))
  ELSE IF t[i] = "args:" /\ i + 1 <= Len(t) /\ t[i + 1] = "{"
    THEN LET inner == ParseFlat(t, i + 2, EmptyObj) IN
         IF inner.next <= Len(t) /\ t[inner.next] = "}"
         THEN ParseMembers(t, inner.next + 1, Put(acc, "args", ObjV(inner.obj)))
         ELSE JsonInvalid
  ELSE JsonInvalid

\* json.loads of a text that starts with a brace: whitespace between the
\* tokens is skipped; any other token that is no member makes it invalid.
JsonLoads(p) ==
  LET t == SelectSeq(p, LAMBDA x : x # "WS") IN
  IF t = <<>> \/ t[1] # "{" THEN JsonInvalid ELSE ParseMembers(t, 2, EmptyObj)

\* ------------------------------------------------------------------ tools
\* f"{value}"
Str(v) ==
  CASE v.ty = "int" -> ToString(v.n)
    [] v.ty = "str" -> v.s
    [] OTHER -> "[]"

TypeError == [kind |-> "raised", exc |-> "TypeError", text |-> <<>>]

Returned(v) == [kind |-> "value", exc |-> "", text |-> <<Str(v)>>]

\* A tool that subtracts.
subtract_numbers(a, b) ==
  IF a.ty = "int" /\ b.ty = "int" THEN Returned(IntV(a.n - b.n)) ELSE TypeError

\* a + b of Python: numbers add, strings and lists concatenate, any other
\* pair is a TypeError.
add_numbers(a, b) ==
  IF a.ty = "int" /\ b.ty = "int" THEN Returned(IntV(a.n + b.n))
  ELSE IF a.ty = "str" /\ b.ty = "str" THEN Returned(StrV(a.s \o b.s))
  ELSE IF a.ty = "list" /\ b.ty = "list" THEN Returned(ListV)
  ELSE TypeError

AVAILABLE_TOOLS == {"add_numbers"}

\* tool_function(**tool_args): args that are no mapping, and named arguments
\* other than exactly a and b, are a TypeError of the call itself.
Invoke(tool_args) ==
  IF tool_args.ty # "obj" THEN TypeError
  ELSE IF DOMAIN tool_args.m # {"a", "b"} THEN TypeError
  ELSE add_numbers(tool_args.m["a"], tool_args.m["b"])

\* What the except clause of run_agent_loop catches, with str(e) as text.
Caught(desc) == [kind |-> "caught", exc |-> "", text |-> desc]

\* The try block of run_agent_loop on the matched group: a value to observe,
\* a caught error to observe, or an exception the except clause lets through.
\* invoked tells whether the tool function was called.
Dispatch(action_json_str) ==
  LET d == JsonLoads(action_json_str) IN
  IF ~d.ok THEN [r |-> Caught(<<"JSONDecodeError">>), invoked |-> FALSE]
  ELSE IF "tool" \notin DOMAIN d.obj
    THEN [r |-> Caught(<<"'tool'">>), invoked |-> FALSE]
  ELSE IF "args" \notin DOMAIN d.obj
    THEN [r |-> Caught(<<"'args'">>), invoked |-> FALSE]
  ELSE LET tool_name == d.obj["tool"]
           tool_args == d.obj["args"] IN
       IF tool_name.ty \in {"list", "obj"}
         THEN [r |-> TypeError, invoked |-> FALSE]
       ELSE IF Str(tool_name) \notin AVAILABLE_TOOLS
         THEN [r |-> Caught(<<"Tool ", Str(tool_name), " not registered.">>),
               invoked |-> FALSE]
       ELSE [r |-> Invoke(tool_args), invoked |-> TRUE]

\* An error observation without the words that mark it as an error.
ObservationMessagePlain(r) == <<"Observation: ">> \o r.text

\* f"Observation: {observation_result}"  and
\* f"Observation: {error_message}" with f"Tool Execution Error: {e}"
ObservationMessage(r) ==
  IF r.kind = "value" THEN <<"Observation: ">> \o r.text
  ELSE <<"Observation: ", "Tool Execution Error: ">> \o r.text

\* ------------------------------------------------------- the action parser
\* A parser that looks for an action before it looks for the final answer.
ClassifyActionFirst(text) ==
  IF ActionSearch(text).found THEN "action"
  ELSE IF Contains(text, "FA") THEN "final"
  ELSE "ambiguous"

\* A parser that takes every text without the marker for an action.
ClassifyNeverAmbiguous(text) ==
  IF Contains(text, "FA") THEN "final" ELSE "action"

\* The branch run_agent_loop takes on a model text: the marker test first,
\* then the search, else the text is ambiguous.
Classify(text) ==
  IF Contains(text, "FA") THEN "final"
  ELSE IF ActionSearch(text).found THEN "action"
  ELSE "ambiguous"

\* ------------------------------------------------------- the model client
Msg(role, content) == [role |-> role, content |-> content]

\* The loop over history[1:] without the translation of the tool role.
RECURSIVE OutboundKeepTool(_)
OutboundKeepTool(h) ==
  IF h = <<>> THEN <<>>
  ELSE IF Head(h).role \in {"user", "assistant", "system", "tool"}
    THEN <<Head(h)>> \o OutboundKeepTool(Tail(h))
  ELSE OutboundKeepTool(Tail(h))

\* The loop over history[1:]: user, assistant and system messages as they
\* are, tool messages as user messages, any other role dropped.
RECURSIVE Outbound(_)
Outbound(h) ==
  IF h = <<>> THEN <<>>
  ELSE IF Head(h).role \in {"user", "assistant", "system"}
    THEN <<Head(h)>> \o Outbound(Tail(h))
  ELSE IF Head(h).role = "tool"
    THEN <<Msg("user", Head(h).content)>> \o Outbound(Tail(h))
  ELSE Outbound(Tail(h))

\* The message list that resends the whole history after the system prompt.
BuildMessagesNoSkip(h, prompt) ==
  (IF prompt # <<>> THEN <<Msg("system", prompt)>> ELSE <<>>) \o Outbound(h)

\* messages of call_llm: the system prompt when it is not empty, then
\* history[1:] (of an empty history, nothing).
BuildMessages(h, prompt) ==
  (IF prompt # <<>> THEN <<Msg("system", prompt)>> ELSE <<>>)
    \o Outbound(IF h = <<>> THEN <<>> ELSE Tail(h))

\* A linear backoff.
WaitTimeLinear(attempt) == 2 * attempt

\* wait_time = 2 ** attempt
WaitTime(attempt) == 2 ^ attempt

\* attempt == max_retries - 1
IsLastAttempt(attempt, retries) == attempt = retries - 1

\* A loop that runs one step more than its budget.
InBudgetOffByOne(step, steps) == step <= steps

\* for step in range(max_steps)
InBudget(step, steps) == step < steps

\* str(e) of a RequestException.  The text of an HTTPError of
\* raise_for_status holds the reason phrase of the status line, which the
\* server chooses, and the url: words, or words with the final-answer marker
\* or an action region among them.
ExcTexts == {<<"w">>, <<"w", "FA", "WS", "w">>, <<"w", "AS", "{", "}", "AE">>}

\* f"Error: API request failed (attempt {attempt + 1}/{max_retries}): {e}"
RequestErrorText(attempt, retries, e) ==
  <<"Error: ", "API request failed (attempt ", ToString(attempt + 1), "/",
    ToString(retries), "): ">> \o e

\* f"Error: Failed to parse API response: {e}"
ParseErrorText == <<"Error: ", "Failed to parse API response: ", "'choices'">>

ExhaustedText == <<"Error: ", "Maximum retry attempts exceeded.">>

\* ------------------------------------------------------ the model replies
WellFormed(a, b) ==
  <<"AS", "{", "tool:add_numbers", "args:", "{", a, b, "}", "}", "AE">>

\* Reply contents that ask for the sum of two integers with a well-formed
\* payload, alone or with words and whitespace around it.
SumReplies ==
  UNION { { WellFormed(IntMember("a", a), IntMember("b", b)),
            <<"w", "WS">> \o WellFormed(IntMember("a", a), IntMember("b", b))
              \o <<"WS">> }
          : <<a, b>> \in MemberInts \X MemberInts }

\* Reply contents that request a tool (the search finds a region).
ActionReplies ==
  { <<"w", "WS">> \o WellFormed("a:123", "b:456"),
    WellFormed("a:1", "b:2") \o <<"WS">>,
    <<"AS", "WS", "{", "tool:add_numbers", "WS", "args:", "{", "a:x", "b:x",
      "}", "}", "WS", "AE">>,
    <<"AS", "{", "tool:add_numbers", "args:", "{", "a:1", "}", "}", "AE">>,
    <<"AS", "{", "tool:add_numbers", "args:", "{", "a:1", "b:2", "c:3", "}",
      "}", "AE">>,
    <<"AS", "{", "tool:add_numbers", "args:", "{", "a:x", "b:2", "}", "}",
      "AE">>,
    <<"AS", "{", "tool:add_numbers", "args:", "[]", "}", "AE">>,
    <<"AS", "{", "tool:mul", "args:", "{", "a:1", "b:2", "}", "}", "AE">>,
    <<"AS", "{", "tool:[]", "args:", "{", "a:1", "b:2", "}", "}", "AE">>,
    <<"AS", "{", "tool:add_numbers", "}", "AE">>,
    <<"AS", "{", "args:", "{", "a:1", "b:2", "}", "}", "AE">>,
    <<"AS", "{", "w", "}", "AE">>,
    <<"AS", "{", "tool:add_numbers", "args:", "{", "a:1", "b:2", "}", "AE">>,
    <<"AS", "w", "AE", "AS", "{", "tool:mul", "args:", "[]", "}", "AE", "w",
      "}", "AE">>,
    <<"AS", "{", "tool:mul", "tool:add_numbers", "args:", "{", "a:1", "b:2",
      "}", "}", "AE">> }

\* Reply contents that hold the final-answer marker.
FinalReplies ==
  { <<"w", "WS", "FA", "WS", "w", "WS">>,
    WellFormed("a:1", "b:2") \o <<"FA", "w">>,
    <<"FA", "WS", "w", "WS">> \o WellFormed("a:1", "b:2"),
    <<"FA", "w", "FA", "w">>,
    <<"FA">> }

\* Reply contents with neither: prose, nothing, delimiters around a payload
\* with no braces, an unclosed region, delimiters in the wrong order.
OtherReplies ==
  { <<"w">>, <<>>, <<"WS">>,
    <<"AS", "WS", "w", "WS", "AE">>,
    <<"AS", "{", "tool:add_numbers">>,
    <<"AE", "{", "}", "AS">> }

Replies == ActionReplies \cup FinalReplies \cup OtherReplies

SystemPrompts == {<<>>, <<"sys">>}

Roles == {"system", "user", "assistant", "tool", "function"}

\* The histories a direct caller of call_llm may pass: any roles, and
\* contents that tell the entries apart.
Histories ==
  UNION { { [i \in 1..n |-> Msg(f[i], <<"w", ToString(i)>>)] :
              f \in [1..n -> Roles] } : n \in 0..MaxHist }

\* ------------------------------------------------------------------ state
VARIABLES
  apiKey,         \* DEEPSEEK_CONFIG["api_key"] is set
  system_prompt,  \* the system prompt of the run or of the call
  max_steps,      \* run_agent_loop's max_steps
  max_retries,    \* call_llm's max_retries
  caller,         \* "loop": call_llm called by run_agent_loop; "direct"
  history,        \* the history list
  step,           \* the loop variable of run_agent_loop
  pc,             \* where control is
  messages,       \* the messages of the request call_llm last built
  attempt,        \* the loop variable of call_llm
  waits,          \* the sleeps of the current call_llm call, in order
  outcomes,       \* how each attempt of the current call_llm call ended
  requests,       \* requests.post calls made so far
  llmCalls,       \* call_llm calls made so far
  invoked,        \* tool function calls made so far
  classes,        \* the branch taken on each text call_llm returned
  llm_response,   \* what call_llm returned
  result,         \* what run_agent_loop returned
  exc             \* the exception that left run_agent_loop or call_llm

vars ==
  <<apiKey, system_prompt, max_steps, max_retries, caller, history, step, pc,
    messages, attempt, waits, outcomes, requests, llmCalls, invoked, classes,
    llm_response, result, exc>>

config == <<apiKey, system_prompt, max_steps, max_retries, caller>>

InitCommon ==
  /\ apiKey \in BOOLEAN
  /\ system_prompt \in SystemPrompts
  /\ step = 0
  /\ messages = <<>>
  /\ attempt = 0
  /\ waits = <<>>
  /\ outcomes = <<>>
  /\ requests = 0
  /\ llmCalls = 0
  /\ invoked = 0
  /\ classes = <<>>
  /\ llm_response = <<>>
  /\ result = <<>>
  /\ exc = ""

\* run_agent_loop(initial_user_prompt, system_prompt, max_steps) is entered
\* and history is seeded.
Init ==
  /\ InitCommon
  /\ max_steps \in 0..MaxSteps
  /\ max_retries = DefaultMaxRetries
  /\ caller = "loop"
  /\ history = <<Msg("system", system_prompt), Msg("user", <<"task">>)>>
  /\ pc = "loop"

\* call_llm(history, system_prompt, max_retries) is about to be called.
InitLLM ==
  /\ InitCommon
  /\ max_steps = 0
  /\ max_retries \in 0..MaxRetries
  /\ caller = "direct"
  /\ history \in Histories
  /\ pc = "call"

\* Where control goes when call_llm returns.
ReturnPc == IF caller = "loop" THEN "parse" ELSE "returned"

\* A key check that lets every key through.
KeyMissingNever(key) == FALSE

\* not DEEPSEEK_CONFIG["api_key"]
KeyMissing(key) == ~key

\* call_llm up to its retry loop: the key check, then the message list.
EnterCallLLM ==
  /\ llmCalls' = llmCalls + 1
  /\ attempt' = 0
  /\ waits' = <<>>
  /\ outcomes' = <<>>
  /\ IF ~KeyMissing(apiKey)
     THEN /\ messages' = BuildMessages(history, system_prompt)
          /\ pc' = "attempt"
          /\ exc' = exc
     ELSE /\ messages' = messages
          /\ pc' = "raised"
          /\ exc' = "ValueError"
  /\ UNCHANGED <<config, history, step, requests, invoked, classes,
                 llm_response, result>>

\* One more iteration of the loop of run_agent_loop begins with call_llm.
LoopStep ==
  /\ pc = "loop"
  /\ InBudget(step, max_steps)
  /\ EnterCallLLM

\* The loop of run_agent_loop is over: the budget is spent.
LoopExit ==
  /\ pc = "loop"
  /\ ~InBudget(step, max_steps)
  /\ pc' = "exhausted"
  /\ result' = <<"Max steps reached without a final answer.">>
  /\ UNCHANGED <<config, history, step, messages, attempt, waits, outcomes,
                 requests, llmCalls, invoked, classes, llm_response, exc>>

\* call_llm is called on its own.
CallDirect ==
  /\ pc = "call"
  /\ EnterCallLLM

\* call_llm returns text.
Return(text) ==
  /\ llm_response' = text
  /\ pc' = ReturnPc
  /\ UNCHANGED <<attempt, waits, exc>>

AttemptFrame == UNCHANGED <<config, history, step, messages, llmCalls, invoked,
                            classes, result>>

\* An attempt succeeds: the reply content, stripped, is returned.
AttemptOk ==
  /\ pc = "attempt"
  /\ attempt < max_retries
  /\ \E raw \in Replies :
       /\ requests' = requests + 1
       /\ outcomes' = Append(outcomes, "ok")
       /\ Return(Strip(raw))
  /\ AttemptFrame

\* An attempt succeeds and the reply asks for the sum of two integers.
AttemptOkSum ==
  /\ pc = "attempt"
  /\ attempt < max_retries
  /\ \E raw \in SumReplies :
       /\ requests' = requests + 1
       /\ outcomes' = Append(outcomes, "ok")
       /\ Return(Strip(raw))
  /\ AttemptFrame

\* An attempt fails with a RequestException (connection error, timeout,
\* non-2xx status of raise_for_status, a body that is no JSON): the last
\* attempt returns the error text, any other sleeps and goes round the loop.
AttemptTransient ==
  /\ pc = "attempt"
  /\ attempt < max_retries
  /\ requests' = requests + 1
  /\ outcomes' = Append(outcomes, "transient")
  /\ IF IsLastAttempt(attempt, max_retries)
     THEN \E e \in ExcTexts : Return(RequestErrorText(attempt, max_retries, e))
     ELSE /\ waits' = Append(waits, WaitTime(attempt))
          /\ attempt' = attempt + 1
          /\ UNCHANGED <<pc, llm_response, exc>>
  /\ AttemptFrame

\* The reply lacks a key or the choices list is empty (KeyError,
\* IndexError): the error text is returned at once.
AttemptMissingField ==
  /\ pc = "attempt"
  /\ attempt < max_retries
  /\ requests' = requests + 1
  /\ outcomes' = Append(outcomes, "missing")
  /\ Return(ParseErrorText)
  /\ AttemptFrame

\* The reply has another shape: choices or message of a type that cannot be
\* indexed, such as null (TypeError), or a content that is no string, such
\* as null (AttributeError).  No except clause catches these: the exception
\* leaves call_llm and its caller.
AttemptUncaught ==
  /\ pc = "attempt"
  /\ attempt < max_retries
  /\ requests' = requests + 1
  /\ outcomes' = Append(outcomes, "uncaught")
  /\ \E e \in {"TypeError", "AttributeError"} : exc' = e
  /\ pc' = "raised"
  /\ UNCHANGED <<attempt, waits, llm_response>>
  /\ AttemptFrame

\* The retry loop ended without returning, which it does only when
\* max_retries is 0.
AttemptsExhausted ==
  /\ pc = "attempt"
  /\ attempt >= max_retries
  /\ Return(ExhaustedText)
  /\ UNCHANGED <<requests, outcomes>>
  /\ AttemptFrame

StepFrame == UNCHANGED <<config, messages, attempt, waits, outcomes, requests,
                         llmCalls, llm_response>>

\* The text holds the final-answer marker: run_agent_loop returns what
\* follows its first occurrence, stripped, after the words that announce it
\* (one token here, as are the two other texts run_agent_loop returns; the
\* tokens leave out the sign each starts with).
StepFinal ==
  /\ pc = "parse"
  /\ Classify(llm_response) = "final"
  /\ classes' = Append(classes, "final")
  /\ result' = <<"Agent Finished! Final Answer: ">>
                 \o Strip(AfterFirst(llm_response, "FA"))
  /\ pc' = "done"
  /\ UNCHANGED <<history, step, invoked, exc>>
  /\ StepFrame

\* A step that records the observation without the model text.
ObservedOnly(h, text, r) == Append(h, Msg("tool", ObservationMessage(r)))

\* history after a dispatch that returned or whose error was caught: the
\* model text as an assistant message, then the observation as a tool
\* message.
Observed(h, text, r) ==
  h \o <<Msg("assistant", text), Msg("tool", ObservationMessage(r))>>

\* The search found an action: the text is appended as an assistant message,
\* the group is decoded and dispatched, and the observation is appended as a
\* tool message; an exception the except clause does not catch leaves
\* run_agent_loop after the assistant message was appended.
StepAction ==
  /\ pc = "parse"
  /\ Classify(llm_response) = "action"
  /\ classes' = Append(classes, "action")
  /\ LET d == Dispatch(ActionSearch(llm_response).group1)
         said == Append(history, Msg("assistant", llm_response)) IN
     /\ invoked' = invoked + (IF d.invoked THEN 1 ELSE 0)
     /\ IF d.r.kind = "raised"
        THEN /\ history' = said
             /\ pc' = "raised"
             /\ exc' = d.r.exc
             /\ step' = step
        ELSE /\ history' = Observed(history, llm_response, d.r)
             /\ pc' = "loop"
             /\ exc' = exc
             /\ step' = step + 1
  /\ UNCHANGED result
  /\ StepFrame

\* Neither: run_agent_loop returns the failure text.
StepAmbiguous ==
  /\ pc = "parse"
  /\ Classify(llm_response) = "ambiguous"
  /\ classes' = Append(classes, "ambiguous")
  /\ result' = <<"Agent failed to produce a valid action or final answer.">>
  /\ pc' = "failed"
  /\ UNCHANGED <<history, step, invoked, exc>>
  /\ StepFrame

\* A run of run_agent_loop.
Next ==
  \/ LoopStep
  \/ LoopExit
  \/ AttemptOk
  \/ AttemptTransient
  \/ AttemptMissingField
  \/ AttemptUncaught
  \/ StepFinal
  \/ StepAction
  \/ StepAmbiguous

Spec == Init /\ [][Next]_vars

\* A call of call_llm on its own.
NextLLM ==
  \/ CallDirect
  \/ AttemptOk
  \/ AttemptTransient
  \/ AttemptMissingField
  \/ AttemptUncaught
  \/ AttemptsExhausted

SpecLLM == InitLLM /\ [][NextLLM]_vars

\* A run of at most one step in which the model asks for a sum.
InitSum == Init /\ max_steps <= 1

NextSum ==
  \/ LoopStep
  \/ LoopExit
  \/ AttemptOkSum
  \/ StepAction

SpecSum == InitSum /\ [][NextSum]_vars

\* ----------------------------------------------------------------- claims
\* What a claim says of a model text, stated apart from the operators the
\* actions use.
Decoded(text) == JsonLoads(ActionSearch(text).group1)

\* The text has a located action that names a registered tool.
NamesRegisteredTool(text) ==
  /\ ~Contains(text, "FA")
  /\ ActionSearch(text).found
  /\ Decoded(text).ok
  /\ {"tool", "args"} \subseteq DOMAIN Decoded(text).obj
  /\ Decoded(text).obj["tool"].ty = "str"
  /\ Decoded(text).obj["tool"].s \in AVAILABLE_TOOLS

\* Calling the tool with the args of the located action fails.
InvocationFails(text) == Invoke(Decoded(text).obj["args"]).kind # "value"

\* A message 'Observation: Tool Execution Error: ...' of the tool role.
IsErrorObservation(m) ==
  /\ m.role = "tool"
  /\ Len(m.content) >= 3
  /\ m.content[1] = "Observation: "
  /\ m.content[2] = "Tool Execution Error: "

Ended == pc \in {"done", "failed", "exhausted", "raised"}

\* C1: whenever a located action names a registered tool and invoking the
\* tool with the parsed args fails, the step appends an observation
\* 'Observation: Tool Execution Error: <description>' to history and the loop
\* goes on to its next step; nothing is raised to the caller.
C1_ToolFailureObserved ==
  [][(pc = "parse" /\ NamesRegisteredTool(llm_response)
        /\ InvocationFails(llm_response))
       => /\ pc' = "loop"
          /\ step' = step + 1
          /\ Len(history') = Len(history) + 2
          /\ IsErrorObservation(history'[Len(history')])]_vars

\* C2: with an API key configured, no exception leaves run_agent_loop: a run
\* ends only by returning one of its three outcomes.
C2_NoExceptionEscapes == apiKey => pc # "raised"

SystemCount(ms) == Cardinality({i \in 1..Len(ms) : ms[i].role = "system"})

\* The message list starts with a system message, holds exactly one, and
\* holds no message of the tool role.
OneLeadingSystemNoTool(ms) ==
  /\ Len(ms) >= 1
  /\ ms[1].role = "system"
  /\ SystemCount(ms) = 1
  /\ \A i \in 1..Len(ms) : ms[i].role # "tool"

\* call_llm has built its message list from history and system_prompt.
MessagesBuilt == llmCalls = 1 /\ pc \in {"attempt", "returned"}

\* C3 as stated: for every history and every system prompt, the message list
\* call_llm builds starts with a system message, holds exactly one system
\* message and holds no message of the tool role.
C3_EveryPromptAndHistory == MessagesBuilt => OneLeadingSystemNoTool(messages)

\* C3 as amended: the same, for every system prompt that is not empty and
\* every history with no system message after its first entry.
C3_OneLeadingSystemNoTool ==
  (/\ MessagesBuilt
   /\ system_prompt # <<>>
   /\ \A i \in 2..Len(history) : history[i].role # "system")
    => OneLeadingSystemNoTool(messages)

\* A history with an observation in it was turned into a message list.
C3_Witness ==
  /\ MessagesBuilt
  /\ system_prompt # <<>>
  /\ \A i \in 2..Len(history) : history[i].role # "system"
  /\ \E i \in 2..Len(history) : history[i].role = "tool"
  /\ Len(messages) = Len(history)

AllTransient == \A i \in 1..Len(outcomes) : outcomes[i] = "transient"

\* The waits 2^0, ..., 2^(n-1).
Backoff(n) == [i \in 1..n |-> 2 ^ (i - 1)]

\* C4: when every attempt of a call_llm call fails transiently, the call
\* makes exactly max_retries attempts, sleeps 2^i between attempt i and
\* attempt i+1, does not sleep after the last attempt, and returns an error
\* text instead of raising.
C4_AllAttemptsFail ==
  /\ (pc = "attempt" /\ AllTransient)
       => /\ Len(outcomes) = attempt
          /\ requests = attempt
          /\ waits = Backoff(attempt)
  /\ (pc = "returned" /\ AllTransient)
       => /\ Len(outcomes) = max_retries
          /\ requests = max_retries
          /\ waits = Backoff(IF max_retries = 0 THEN 0 ELSE max_retries - 1)
          /\ Len(llm_response) >= 1
          /\ llm_response[1] = "Error: "
          /\ exc = ""
  /\ (pc = "raised" /\ AllTransient) => ~apiKey

\* Three attempts failed: the waits were 1 then 2, and the error text came.
C4_Witness ==
  /\ pc = "returned"
  /\ max_retries = 3
  /\ outcomes = <<"transient", "transient", "transient">>
  /\ waits = <<1, 2>>

\* C5: a run in which the model requests a tool at every step ends with the
\* budget-exhausted outcome after exactly max_steps cycles of model call and
\* dispatch.
C5_ToolEveryStepExhaustsBudget ==
  (/\ Ended
   /\ llmCalls = Len(classes)
   /\ \A i \in 1..Len(classes) : classes[i] = "action")
    => /\ pc = "exhausted"
       /\ llmCalls = max_steps
       /\ step = max_steps

\* t is s without its leading and trailing whitespace.
IsTrimOf(t, s) ==
  /\ t = <<>> \/ (t[1] # "WS" /\ t[Len(t)] # "WS")
  /\ \E a \in 0..Len(s) :
       /\ a + Len(t) <= Len(s)
       /\ SubSeq(s, a + 1, a + Len(t)) = t
       /\ \A i \in 1..Len(s) : (i <= a \/ i > a + Len(t)) => s[i] = "WS"

\* res is the final result for text: what follows the first marker, trimmed.
IsAnswerOf(res, text) ==
  \E i \in 1..Len(text) :
    /\ text[i] = "FA"
    /\ \A j \in 1..(i - 1) : text[j] # "FA"
    /\ Len(res) >= 1
    /\ res[1] = "Agent Finished! Final Answer: "
    /\ IsTrimOf(Tail(res), SubSeq(text, i + 1, Len(text)))

\* C6: a model text that holds the final-answer marker anywhere ends the run
\* in DONE with everything after the first marker, trimmed, as the result,
\* and dispatches no tool, also when the text holds an action region.
C6_FinalAnswerPrecedence ==
  [][(pc = "parse" /\ Contains(llm_response, "FA"))
       => /\ pc' = "done"
          /\ invoked' = invoked
          /\ history' = history
          /\ IsAnswerOf(result', llm_response)]_vars

\* A run ended in DONE on a text with an action region before the marker.
C6_Witness ==
  /\ pc = "done"
  /\ ActionSearch(llm_response).found
  /\ \E i \in 1..Len(llm_response) :
       /\ llm_response[i] = "FA"
       /\ \E j \in 1..(i - 1) : llm_response[j] = "AE"
  /\ invoked = 0
  /\ Len(history) = 2

\* The text holds an opening delimiter and, after it, a closing delimiter.
HasDelimitedRegion(text) ==
  \E i \in 1..Len(text) : \E j \in (i + 1)..Len(text) :
    text[i] = "AS" /\ text[j] = "AE"

\* The delimited payload is a brace-enclosed object that decodes and holds
\* both keys.
PayloadWellFormed(text) ==
  /\ ActionSearch(text).found
  /\ Decoded(text).ok
  /\ {"tool", "args"} \subseteq DOMAIN Decoded(text).obj

\* C7: a text without the final-answer marker that holds a delimited region
\* whose payload is not valid structured data (a payload that is no
\* brace-enclosed object included) or lacks a key is never ambiguous: the
\* step appends an error observation and the run goes on.
C7_MalformedPayloadObserved ==
  [][(/\ pc = "parse"
      /\ ~Contains(llm_response, "FA")
      /\ HasDelimitedRegion(llm_response)
      /\ ~PayloadWellFormed(llm_response))
       => /\ pc' = "loop"
          /\ Len(history') = Len(history) + 2
          /\ IsErrorObservation(history'[Len(history')])]_vars

NoMarkers(text) == ~Contains(text, "FA") /\ ~HasDelimitedRegion(text)

\* C8: a model text with neither the final-answer marker nor a delimited
\* region ends the run in FAILED at that step, with no tool dispatched and
\* no model call after it; nothing happens after FAILED.
C8_AmbiguousFails ==
  [][/\ pc # "failed"
     /\ (pc = "parse" /\ NoMarkers(llm_response))
          => /\ pc' = "failed"
             /\ UNCHANGED <<history, step, requests, llmCalls, invoked>>]_vars

\* A run failed in its second step on a reply of plain text.
C8_Witness ==
  /\ pc = "failed"
  /\ NoMarkers(llm_response)
  /\ outcomes = <<"ok">>
  /\ step = 1
  /\ llmCalls = 2

\* The text has a located action that names a tool the registry lacks.
NamesUnregisteredTool(text) ==
  /\ ~Contains(text, "FA")
  /\ PayloadWellFormed(text)
  /\ Decoded(text).obj["tool"].ty = "str"
  /\ Decoded(text).obj["tool"].s \notin AVAILABLE_TOOLS

Last(q) == q[Len(q)]

\* C9: an action that names an unregistered tool invokes nothing, appends an
\* observation that begins 'Observation: Tool Execution Error:' and does not
\* end the run; with budget left, the next step calls the model with a
\* message list that holds this observation.
C9_UnregisteredToolObserved ==
  [][/\ (pc = "parse" /\ NamesUnregisteredTool(llm_response))
          => /\ invoked' = invoked
             /\ pc' = "loop"
             /\ step' = step + 1
             /\ Len(history') = Len(history) + 2
             /\ SubSeq(history', 1, Len(history)) = history
             /\ history'[Len(history) + 1] = Msg("assistant", llm_response)
             /\ IsErrorObservation(Last(history'))
     /\ (/\ pc = "loop"
         /\ step < max_steps
         /\ apiKey
         /\ Len(history) >= 4
         /\ NamesUnregisteredTool(history[Len(history) - 1].content))
          => /\ pc' = "attempt"
             /\ llmCalls' = llmCalls + 1
             /\ Last(messages') = Msg("user", Last(history).content)
             /\ IsErrorObservation(Last(history))]_vars

\* The model is being called again after an unregistered tool was named.
C9_Witness ==
  /\ pc = "attempt"
  /\ llmCalls = 2
  /\ Len(history) = 4
  /\ NamesUnregisteredTool(history[3].content)
  /\ IsErrorObservation(history[4])
  /\ Last(messages) = Msg("user", history[4].content)
  /\ invoked = 0

\* C10: a run makes at most max_steps * max_retries requests to the
\* completion endpoint.
C10_RequestsBounded == requests <= max_steps * max_retries

\* Every attempt of every step of a run of two or more steps was made.
C10_Witness == max_steps >= 2 /\ requests = max_steps * max_retries

\* Every attempt of the call_llm call that has just returned failed.
AllAttemptsFailed ==
  /\ max_retries > 0
  /\ Len(outcomes) = max_retries
  /\ AllTransient

\* C11: when all retry attempts of the model call of a step fail, call_llm
\* returns an error string, the loop parses it as model output, the parse
\* fails, and the run ends in FAILED in that step: no tool is dispatched,
\* nothing is appended to history and the model is not called again.
C11_AllAttemptsFailRunFails ==
  [][(pc = "parse" /\ AllAttemptsFailed)
       => /\ llm_response[1] = "Error: "
          /\ pc' = "failed"
          /\ UNCHANGED <<history, invoked, requests, llmCalls>>]_vars

\* C12: an attempt of call_llm that receives a reply of status 200 whose body
\* lacks the expected fields, or has another unexpected shape, is the last
\* attempt of the call: no further attempt and no wait follow it, and
\* call_llm returns an error string.
C12_MalformedReplyYieldsErrorString ==
  (outcomes # <<>> /\ Last(outcomes) \in {"missing", "uncaught"})
    => /\ pc = "returned"
       /\ exc = ""
       /\ llm_response # <<>>
       /\ llm_response[1] = "Error: "
       /\ requests = Len(outcomes)
       /\ Len(waits) = Len(outcomes) - 1

\* C13: without an API key call_llm raises its configuration error at once:
\* no request is made, no wait occurs, no message list is built, and the
\* error reaches the caller of the run as an exception, with no error string
\* returned and no observation appended.
C13_MissingKeyRaises ==
  (~apiKey /\ llmCalls >= 1)
    => /\ pc = "raised"
       /\ exc = "ValueError"
       /\ llmCalls = 1
       /\ requests = 0
       /\ waits = <<>>
       /\ outcomes = <<>>
       /\ messages = <<>>
       /\ llm_response = <<>>
       /\ result = <<>>
       /\ classes = <<>>
       /\ history = <<Msg("system", system_prompt), Msg("user", <<"task">>)>>

\* The configuration error was raised in a run that may take steps.
C13_Witness ==
  /\ ~apiKey
  /\ max_steps = 2
  /\ llmCalls = 1
  /\ pc = "raised"
  /\ exc = "ValueError"

\* The model texts, as call_llm returns them, that hold the well-formed
\* payload for a and b.
SumRequests(a, b) ==
  { WellFormed(IntMember("a", a), IntMember("b", b)),
    <<"w", "WS">> \o WellFormed(IntMember("a", a), IntMember("b", b)) }

\* C14: a well-formed payload with tool add_numbers and integer args a and b
\* between the delimiters is parsed to that tool name and those args, and
\* its dispatch appends the observation 'Observation: <a+b>'; for 123 and
\* 456 the observation is 'Observation: 579'.
C14_SumObserved ==
  [][\A a, b \in MemberInts :
       (pc = "parse" /\ llm_response \in SumRequests(a, b))
         => /\ Decoded(llm_response).ok
            /\ Decoded(llm_response).obj =
                 [k \in {"tool", "args"} |->
                    IF k = "tool" THEN StrV("add_numbers")
                    ELSE ObjV([x \in {"a", "b"} |->
                                 IF x = "a" THEN IntV(a) ELSE IntV(b)])]
            /\ history' = history \o
                 << Msg("assistant", llm_response),
                    Msg("tool", <<"Observation: ", ToString(a + b)>>) >>
            /\ (a = 123 /\ b = 456)
                 => Last(history').content = <<"Observation: ", "579">>
            /\ invoked' = invoked + 1
            /\ pc' = "loop"]_vars

\* The sum of 123 and 456 was observed.
C14_Witness ==
  /\ pc = "loop"
  /\ invoked = 1
  /\ Len(history) = 4
  /\ history[3] = Msg("assistant",
                      <<"w", "WS">> \o WellFormed("a:123", "b:456"))
  /\ history[4] = Msg("tool", <<"Observation: ", "579">>)

\* The messages of a history that are no system messages, in their order.
NonSystem(h) == SelectSeq(h, LAMBDA m : m.role # "system")

\* The same messages, each observation as a user message.
ObservationsAsUser(h) ==
  [i \in 1..Len(h) |->
     IF h[i].role = "tool" THEN Msg("user", h[i].content) ELSE h[i]]

\* The system prompt, then the non-system messages of the history.
PromptThenHistory(h, prompt) ==
  <<Msg("system", prompt)>> \o ObservationsAsUser(NonSystem(h))

\* C15 as stated: the message list call_llm builds is the system prompt
\* followed by the non-system messages of history in their order, none
\* dropped or reordered, user and assistant messages unchanged and each
\* observation as a user message with the same content.
C15_PromptThenNonSystemHistory ==
  MessagesBuilt => messages = PromptThenHistory(history, system_prompt)

\* A history as run_agent_loop keeps it: a system message first, if there is
\* any message, then user, assistant and tool messages only.
SeededHistory(h) ==
  /\ h # <<>> => h[1].role = "system"
  /\ \A i \in 2..Len(h) : h[i].role \in {"user", "assistant", "tool"}

\* C15 as amended: the same, for a system prompt that is not empty and a
\* history that is empty or starts with its only system message and holds
\* user, assistant and observation messages after it.
C15_PromptThenSeededHistory ==
  (MessagesBuilt /\ system_prompt # <<>> /\ SeededHistory(history))
    => messages = PromptThenHistory(history, system_prompt)

\* A seeded history with an observation before an assistant message was
\* turned into a message list.
C15_Witness ==
  /\ MessagesBuilt
  /\ system_prompt = <<"sys">>
  /\ Len(history) = 3
  /\ history[1].role = "system"
  /\ history[2].role = "tool"
  /\ history[3].role = "assistant"
  /\ messages = << Msg("system", <<"sys">>), Msg("user", <<"w", "2">>),
                   Msg("assistant", <<"w", "3">>) >>

\* h is a system message and a user message followed by pairs of an
\* assistant message and a tool message.
SeedThenPairs(h) ==
  /\ Len(h) >= 2
  /\ Len(h) % 2 = 0
  /\ h[1].role = "system"
  /\ h[2].role = "user"
  /\ \A i \in 3..Len(h) :
       h[i].role = (IF i % 2 = 1 THEN "assistant" ELSE "tool")

\* call_llm is being called or is running.
ModelClientCalled == (pc = "loop" /\ step < max_steps) \/ pc = "attempt"

\* C16: throughout a run history starts with the system message of the
\* prompt and the user message of the task and holds no other system
\* message; whenever the model is called, history is that seed followed by
\* pairs of an assistant message and an observation; and the assistant
\* message of a step holds the model text of that step as call_llm
\* returned it.
C16_HistoryShape ==
  /\ [](/\ Len(history) >= 2
        /\ history[1] = Msg("system", system_prompt)
        /\ history[2] = Msg("user", <<"task">>)
        /\ SystemCount(history) = 1
        /\ ModelClientCalled => SeedThenPairs(history))
  /\ [][Len(history') > Len(history)
          => /\ pc = "parse"
             /\ SubSeq(history', 1, Len(history)) = history
             /\ history'[Len(history) + 1] = Msg("assistant", llm_response)
             /\ Len(history') > Len(history) + 1
                  => /\ Len(history') = Len(history) + 2
                     /\ history'[Len(history) + 2].role = "tool"]_vars

\* The model is called a second time, after one pair was appended.
C16_Witness ==
  /\ pc = "attempt"
  /\ llmCalls = 2
  /\ Len(history) = 4
  /\ history[3].role = "assistant"
  /\ history[4].role = "tool"

\* C17: a step whose model text is a final answer leaves history as it is
\* and calls no tool; history changes only in a step whose text is an
\* action, and such a step only appends to it; a tool is called only in a
\* step that changes history.
C17_OnlyActionStepsAppend ==
  [][/\ (pc = "parse" /\ Contains(llm_response, "FA"))
          => /\ pc' = "done"
             /\ UNCHANGED <<history, invoked>>
     /\ history' # history
          => /\ pc = "parse"
             /\ ~Contains(llm_response, "FA")
             /\ ActionSearch(llm_response).found
             /\ Len(history') > Len(history)
             /\ SubSeq(history', 1, Len(history)) = history
     /\ invoked' # invoked => history' # history]_vars

\* A final answer that also holds an action region ended a run whose first
\* step had called the tool: the final step added nothing.
C17_Witness ==
  /\ pc = "done"
  /\ llmCalls = 2
  /\ Contains(llm_response, "FA")
  /\ ActionSearch(llm_response).found
  /\ Len(history) = 4
  /\ history[3].content # llm_response
  /\ invoked = 1

\* C18: with no API key the configuration error is raised before the loop
\* of run_agent_loop begins an iteration: the step that raises it is no
\* iteration of the loop, and no iteration has begun when it is raised.
C18_RaisedBeforeFirstIteration ==
  [][(exc' = "ValueError" /\ exc # "ValueError")
       => /\ ~(pc = "loop" /\ InBudget(step, max_steps))
          /\ llmCalls' = 0]_vars

Terminal == pc \in {"done", "failed", "exhausted"}

\* C19: a run with a key, in which every request and every tool call
\* returns or fails, ends, and ends in DONE, FAILED or BUDGET_EXCEEDED,
\* after at most max_steps model calls; nothing happens after that: no model
\* call, no dispatch, no change of history.  Every step of a run is one of
\* finitely many (each uses up an attempt or a step of the budget), so the
\* run reaches a terminal state when every state in which it has ended is
\* one.
C19_RunEndsInTerminalState ==
  /\ []((apiKey /\ Ended) => (Terminal /\ llmCalls <= max_steps))
  /\ [](llmCalls <= max_steps)
  /\ [][Terminal => UNCHANGED vars]_vars

Blank(s) == \A i \in 1..Len(s) : s[i] = "WS"

\* t is s without the whitespace at its two ends.
IsStripOf(t, s) ==
  /\ t = <<>> \/ (t[1] # "WS" /\ t[Len(t)] # "WS")
  /\ \E a \in 0..(Len(s) - Len(t)) :
       /\ SubSeq(s, a + 1, a + Len(t)) = t
       /\ Blank(SubSeq(s, 1, a))
       /\ Blank(SubSeq(s, a + Len(t) + 1, Len(s)))

\* C20: when the first k attempts of a call_llm call fail transiently and
\* attempt k < max_retries succeeds, the call returns the stripped reply
\* content after exactly k+1 attempts and the waits 2^0, ..., 2^(k-1), with
\* no wait and no attempt after the success; no request is made outside a
\* call; and the next call starts again at attempt 0 with no wait behind it.
C20_SuccessAfterTransientFailures ==
  [][/\ (pc = "attempt" /\ outcomes' # <<>> /\ Last(outcomes') = "ok")
          => /\ attempt < max_retries
             /\ AllTransient
             /\ Len(outcomes) = attempt
             /\ Len(outcomes') = attempt + 1
             /\ requests' = requests + 1
             /\ waits' = waits
             /\ waits = Backoff(attempt)
             /\ pc' = "parse"
             /\ \E raw \in Replies : IsStripOf(llm_response', raw)
     /\ pc # "attempt" => (requests' = requests /\ Len(waits') <= Len(waits))
     /\ (pc # "attempt" /\ pc' = "attempt")
          => /\ attempt' = 0
             /\ waits' = <<>>
             /\ outcomes' = <<>>]_vars

\* The second call of a run succeeded at its third attempt, after a first
\* call that had succeeded at its second.
C20_Witness ==
  /\ pc = "parse"
  /\ llmCalls = 2
  /\ outcomes = <<"transient", "transient", "ok">>
  /\ waits = <<1, 2>>
  /\ requests = 5
  /\ \E raw \in Replies : raw # llm_response /\ IsStripOf(llm_response, raw)

====
